---- MODULE Spec2Model ----
(***************************************************************************)
(* State-machine model of TableView<T, H> (src/lib.rs): the item store     *)
(* with its display permutation sort_refs, the column registry, and the    *)
(* row-focus / column-select navigation driven by key events.              *)
(*                                                                         *)
(* Storage indices and display rows are 0-based as in the source; TLA+     *)
(* sequences are 1-based, so the element at index i of a Vec v is v[i+1].  *)
(* A Rust panic (index out of bounds, checked arithmetic overflow,         *)
(* unwrap of None) is the absorbing flag panicked = TRUE: a method applied  *)
(* to a widget yields the widget it leaves, with panicked set where it     *)
(* panicked, and a step that panics drops the widget.                      *)
(*                                                                         *)
(* Spec drives the store, the columns and the key events. The fields that  *)
(* those operations never write are driven in specifications of their own: *)
(* SpecEnabled (the enabled flag), SpecNotify (the three handlers),        *)
(* SpecLayout (requested and computed column widths, last_size) and        *)
(* SpecPaging (stores longer than a page).                                 *)
(***************************************************************************)
EXTENDS Integers, Sequences, FiniteSets, TLC

\* ------------------------------------------------------------------ bounds
\* Largest number of records the model ever puts in the store.
MaxLen == 3
\* usize::MAX, scaled to the model checker's integer range.
UsizeMax == 2147483647
\* Rows moved by PageUp / PageDown.
PageRows == 10
\* Largest number of identical rows the model pages through; more than
\* PageRows + 1, so that a page can end before the last row.
MaxRows == 12
\* Largest width and height handed to layout.
MaxWidth == 8
MaxHeight == 3
\* Cells layout reserves per separator between two columns, and for the
\* scrollbar.
SeparatorCells == 3
ScrollbarCells == 2

\* The values of the column-key enum H (one variant per column), in the
\* order in which the builder registers them.
KeyOrder == <<"A", "B">>
Keys == {"A", "B"}
\* std::cmp::Ordering
Orders == {"Less", "Equal", "Greater"}
\* The default orders the model configures columns with (ordering()).
DefaultOrders == {"Less", "Greater"}
\* The records of type T the model inserts: one field per column key.
ItemSet == { [A |-> 1, B |-> 2], [A |-> 2, B |-> 1] }
\* Arguments tried for select_row / select_item / remove_item.
Indices == 0..MaxLen
\* TableColumnWidth
Absolute(n) == [kind |-> "Absolute", width |-> n]
Percent(p) == [kind |-> "Percent", width |-> p]
\* The requested widths the model configures columns with (width(),
\* width_percent(), or neither), and the sizes it lays the table out in.
RequestedWidths ==
    {<<>>} \cup { <<Absolute(n)>> : n \in {2, 5} }
           \cup { <<Percent(p)>> : p \in {40, 100} }
Sizes == [x : 0..MaxWidth, y : 0..MaxHeight]
\* Key events delivered to on_event; "Tab" stands for every other event.
KeySet == {"Right", "Left", "Up", "Down", "PageUp", "PageDown", "Home", "End",
           "Enter", "Tab"}

VARIABLES
    enabled,         \* bool: the view can take the focus
    last_size,       \* Vec2: the size of the last layout pass
    column_select,   \* bool: column-select navigation mode
    columns,         \* Vec<TableColumn<H>>
    column_indicies, \* HashMap<H, usize>
    focus,           \* Rc<Cell<usize>>: focused display row
    items,           \* Vec<T>: storage order
    sort_refs,       \* Vec<usize>: display order, storage index per row
    on_sort,         \* bool: a handler is bound (Option::is_some)
    on_submit,
    on_select,
    panicked         \* a method panicked; the widget is gone

vars == <<enabled, last_size, column_select, columns, column_indicies, focus, items, sort_refs,
          on_sort, on_submit, on_select, panicked>>

\* ------------------------------------------------------------- primitives
None == <<>>
Some(x) == <<x>>

\* Vec indexing v[i]
At(v, i) == v[i + 1]

\* The widget as one value, so that a method is an operator from self to self.
\* overflow_checks is the build the call runs in; overflowed records that the
\* call evaluated usize arithmetic that overflowed.
SelfIn(checks) ==
    [ enabled |-> enabled, last_size |-> last_size,
      column_select |-> column_select, columns |-> columns,
      column_indicies |-> column_indicies, focus |-> focus, items |-> items,
      sort_refs |-> sort_refs, on_sort |-> on_sort, on_submit |-> on_submit,
      on_select |-> on_select, panicked |-> panicked,
      overflow_checks |-> checks, overflowed |-> FALSE ]

Self == SelfIn(TRUE)

Panic(s) == [s EXCEPT !.panicked = TRUE]

\* An overflowing usize operation: a panic with overflow checks, else it wraps
Overflow(s) ==
    [s EXCEPT !.overflowed = TRUE, !.panicked = @ \/ s.overflow_checks]

\* usize arithmetic that has overflowed, in a build without overflow checks
WrappingAdd(a, b) == IF a > UsizeMax - b THEN a - (UsizeMax - b) - 1 ELSE a + b
WrappingSub(a, b) == IF a < b THEN UsizeMax - (b - a - 1) ELSE a - b
AddOverflows(a, b) == a > UsizeMax - b
SubOverflows(a, b) == a < b

Min(a, b) == IF a < b THEN a ELSE b

\* TableViewItem::cmp as the doc example implements it: compare one field.
Cmp(a, b, column) ==
    IF a[column] < b[column] THEN "Less"
    ELSE IF a[column] > b[column] THEN "Greater"
    ELSE "Equal"

\* TableColumn::new followed by the configuring callback (ordering()).
NewColumn(column, default_order) ==
    [ column |-> column, selected |-> FALSE, order |-> "Equal",
      width |-> 0, default_order |-> default_order,
      requested_width |-> None ]

\* ------------------------------------------------------- TableView methods
new ==
    [ enabled |-> TRUE, last_size |-> [x |-> 0, y |-> 0],
      column_select |-> FALSE, columns |-> <<>>, column_indicies |-> <<>>,
      focus |-> 0, items |-> <<>>, sort_refs |-> <<>>, on_sort |-> FALSE,
      on_submit |-> FALSE, on_select |-> FALSE, panicked |-> FALSE,
      overflow_checks |-> TRUE, overflowed |-> FALSE ]

is_empty(s) == s.items = <<>>

disable(s) == [s EXCEPT !.enabled = FALSE]
enable(s) == [s EXCEPT !.enabled = TRUE]
set_enabled(s, value) == [s EXCEPT !.enabled = value]
is_enabled(s) == s.enabled

\* set_on_sort / set_on_submit / set_on_select (and the chainable on_sort /
\* on_submit / on_select): bind the handler
set_on_sort(s) == [s EXCEPT !.on_sort = TRUE]
set_on_submit(s) == [s EXCEPT !.on_submit = TRUE]
set_on_select(s) == [s EXCEPT !.on_select = TRUE]

\* View::take_focus: the bool it returns
take_focus_ignoring_enabled(s) == ~is_empty(s)

take_focus(s) == s.enabled /\ ~is_empty(s)

\* selected_item indexes sort_refs[focus] and panics when focus is past it
selected_item_panics(s) == ~is_empty(s) /\ s.focus >= Len(s.sort_refs)

selected_item(s) ==
    IF is_empty(s) THEN None ELSE Some(At(s.sort_refs, s.focus))

selected_row(s) ==
    IF is_empty(s) THEN None ELSE Some(s.focus)

select_item(s, item_index) ==
    IF item_index < Len(s.items)
       /\ \E index \in 0..(Len(s.sort_refs) - 1) : At(s.sort_refs, index) = item_index
    THEN LET index == CHOOSE i \in 0..(Len(s.sort_refs) - 1) :
                          /\ At(s.sort_refs, i) = item_index
                          /\ \A j \in 0..(i - 1) : At(s.sort_refs, j) # item_index
         IN  [s EXCEPT !.focus = index]
    ELSE s

select_row(s, row) == [s EXCEPT !.focus = row]

default_column(s, column) ==
    IF column \in DOMAIN s.column_indicies
    THEN [s EXCEPT !.columns =
            [ i \in DOMAIN s.columns |->
                IF s.columns[i].column = column
                THEN [s.columns[i] EXCEPT !.selected = TRUE,
                                          !.order = s.columns[i].default_order]
                ELSE [s.columns[i] EXCEPT !.selected = FALSE, !.order = "Equal"] ]]
    ELSE s

\* The closure handed to slice::sort_by
SortClosure_ignoring_order(its, column, order, a, b) ==
    Cmp(At(its, a), At(its, b), column)

SortClosure(its, column, order, a, b) ==
    IF order = "Less"
    THEN Cmp(At(its, a), At(its, b), column)
    ELSE Cmp(At(its, b), At(its, a), column)

\* slice::sort_by is a stable sort: insert each element after every element
\* it is not less than.
RECURSIVE InsertTail_before_equals(_, _, _, _, _)
InsertTail_before_equals(sorted, x, its, column, order) ==
    IF sorted = <<>> THEN <<x>>
    ELSE LET n == Len(sorted)
         IN  IF SortClosure(its, column, order, x, sorted[n]) # "Greater"
             THEN Append(InsertTail_before_equals(SubSeq(sorted, 1, n - 1), x, its,
                                                  column, order),
                         sorted[n])
             ELSE Append(sorted, x)

RECURSIVE InsertTail(_, _, _, _, _)
InsertTail(sorted, x, its, column, order) ==
    IF sorted = <<>> THEN <<x>>
    ELSE LET n == Len(sorted)
         IN  IF SortClosure(its, column, order, x, sorted[n]) = "Less"
             THEN Append(InsertTail(SubSeq(sorted, 1, n - 1), x, its, column, order),
                         sorted[n])
             ELSE Append(sorted, x)

RECURSIVE StableSort(_, _, _, _)
StableSort(refs, its, column, order) ==
    IF refs = <<>> THEN <<>>
    ELSE LET n == Len(refs)
         IN  InsertTail(StableSort(SubSeq(refs, 1, n - 1), its, column, order),
                        refs[n], its, column, order)

\* With two or more references every one is handed to the closure at least
\* once, and items[*a] panics on a reference past the end of items.
SortClosurePanics(s) ==
    /\ Len(s.sort_refs) >= 2
    /\ \E i \in DOMAIN s.sort_refs : s.sort_refs[i] >= Len(s.items)

\* sort_by, first half: mark the column and give it the order, if registered
SetSortColumn_keeps_others(s, column, order) ==
    IF column \in DOMAIN s.column_indicies
    THEN [s EXCEPT !.columns =
            [ i \in DOMAIN s.columns |->
                IF s.columns[i].column = column
                THEN [s.columns[i] EXCEPT !.selected = TRUE, !.order = order]
                ELSE s.columns[i] ]]
    ELSE s

SetSortColumn(s, column, order) ==
    IF column \in DOMAIN s.column_indicies
    THEN [s EXCEPT !.columns =
            [ i \in DOMAIN s.columns |->
                IF s.columns[i].column = column
                THEN [s.columns[i] EXCEPT !.selected = TRUE, !.order = order]
                ELSE [s.columns[i] EXCEPT !.selected = FALSE, !.order = "Equal"] ]]
    ELSE s

\* sort_by, second half: reorder sort_refs and put the focus back on the item
SortRefs_sorting_items(s, column, order) ==
    IF is_empty(s) THEN s
    ELSE IF selected_item_panics(s) THEN Panic(s)
    ELSE IF SortClosurePanics(s) THEN Panic(s)
    ELSE LET sorted == StableSort(s.sort_refs, s.items, column, order)
         IN  [s EXCEPT !.items = [ i \in DOMAIN sorted |-> At(s.items, sorted[i]) ]]

SortRefs(s, column, order) ==
    IF is_empty(s) THEN s
    ELSE IF selected_item_panics(s) THEN Panic(s)
    ELSE IF SortClosurePanics(s) THEN Panic(s)
    ELSE LET old_item == At(s.sort_refs, s.focus)
             sorted == StableSort(s.sort_refs, s.items, column, order)
         IN  select_item([s EXCEPT !.sort_refs = sorted], old_item)

sort_by(s, column, order) == SortRefs(SetSortColumn(s, column, order), column, order)

\* fn sort(&self): the first column with an order, as <<column, order>>
sort(s) ==
    IF \E i \in DOMAIN s.columns : s.columns[i].order # "Equal"
    THEN LET i == CHOOSE k \in DOMAIN s.columns :
                      /\ s.columns[k].order # "Equal"
                      /\ \A j \in 1..(k - 1) : s.columns[j].order = "Equal"
         IN  Some(<<s.columns[i].column, s.columns[i].order>>)
    ELSE None

ResortIfSorted(s) ==
    IF sort(s) # None THEN sort_by(s, sort(s)[1][1], sort(s)[1][2]) ELSE s

column(s, key, default_order) ==
    LET s1 == [s EXCEPT
                 !.column_indicies =
                     [k \in (DOMAIN s.column_indicies) \cup {key} |->
                         IF k = key THEN Len(s.columns) ELSE s.column_indicies[k]],
                 !.columns = Append(s.columns, NewColumn(key, default_order))]
    IN  IF Len(s1.columns) = 1 THEN default_column(s1, key) ELSE s1

clear(s) == [s EXCEPT !.items = <<>>, !.sort_refs = <<>>, !.focus = 0]

set_items(s, its) ==
    ResortIfSorted([s EXCEPT !.items = its,
                             !.sort_refs = [i \in 1..Len(its) |-> i - 1]])

insert_item(s, item) ==
    LET pushed == Append(s.items, item)
    IN  ResortIfSorted([s EXCEPT !.items = pushed,
                                 !.sort_refs = Append(s.sort_refs, Len(pushed))])

take_items(s) ==
    [select_row(s, 0) EXCEPT !.sort_refs = <<>>, !.items = <<>>]

focus_up(s, n) == [s EXCEPT !.focus = s.focus - Min(s.focus, n)]

\* self.focus() + n and self.items.len() - 1 are plain usize arithmetic
focus_down_unclamped(s, n) ==
    LET s1 == IF AddOverflows(s.focus, n) \/ SubOverflows(Len(s.items), 1)
              THEN Overflow(s) ELSE s
    IN  IF s1.panicked THEN s1
        ELSE [s1 EXCEPT !.focus = WrappingAdd(s.focus, n)]

focus_down(s, n) ==
    LET s1 == IF AddOverflows(s.focus, n) \/ SubOverflows(Len(s.items), 1)
              THEN Overflow(s) ELSE s
    IN  IF s1.panicked THEN s1
        ELSE [s1 EXCEPT !.focus = Min(WrappingAdd(s.focus, n),
                                      WrappingSub(Len(s.items), 1))]

\* Vec::remove(index): panics if index is out of bounds
VecRemovePanics(v, index) == index >= Len(v)
VecRemove(v, index) == SubSeq(v, 1, index) \o SubSeq(v, index + 2, Len(v))

\* remove_item, the branch taken for an index in range
RemoveInRange_without_adjusting(s, item_index) ==
    IF selected_item_panics(s) THEN Panic(s)
    ELSE LET s1 == IF selected_item(s) = Some(item_index)
                   THEN focus_up(s, 1) ELSE s
             Keep(r) == r # item_index
             s2 == [s1 EXCEPT !.sort_refs = SelectSeq(s1.sort_refs, Keep)]
         IN  IF VecRemovePanics(s2.items, item_index) THEN Panic(s2)
             ELSE [s2 EXCEPT !.items = VecRemove(s2.items, item_index)]

RemoveInRange(s, item_index) ==
    IF selected_item_panics(s) THEN Panic(s)
    ELSE LET s1 == IF selected_item(s) = Some(item_index)
                   THEN focus_up(s, 1) ELSE s
             Keep(r) == r # item_index
             retained == SelectSeq(s1.sort_refs, Keep)
             adjusted == [ k \in DOMAIN retained |->
                             IF retained[k] > item_index
                             THEN retained[k] - 1 ELSE retained[k] ]
             s2 == [s1 EXCEPT !.sort_refs = adjusted]
         IN  IF VecRemovePanics(s2.items, item_index) THEN Panic(s2)
             ELSE [s2 EXCEPT !.items = VecRemove(s2.items, item_index)]

remove_item_accepting_len(s, item_index) ==
    IF item_index <= Len(s.items) THEN RemoveInRange(s, item_index) ELSE s

remove_item(s, item_index) ==
    IF item_index < Len(s.items) THEN RemoveInRange(s, item_index) ELSE s

\* The Option<T> remove_item returns
remove_item_ret(s, item_index) ==
    IF item_index < Len(s.items) /\ ~remove_item(s, item_index).panicked
    THEN Some(At(s.items, item_index))
    ELSE None

active_column(s) ==
    IF \E i \in DOMAIN s.columns : s.columns[i].selected
    THEN (CHOOSE i \in DOMAIN s.columns :
              /\ s.columns[i].selected
              /\ \A j \in 1..(i - 1) : ~s.columns[j].selected) - 1
    ELSE 0

column_cancel_keeping_flags(s) == [s EXCEPT !.column_select = FALSE]

column_cancel(s) ==
    [s EXCEPT !.column_select = FALSE,
              !.columns = [ i \in DOMAIN s.columns |->
                              [s.columns[i] EXCEPT
                                  !.selected = (s.columns[i].order # "Equal")] ]]

\* columns.len() - 1 underflows without columns: a panic with overflow
\* checks, and otherwise columns[0] is out of bounds.
column_next_panics(s) == s.columns = <<>>

\* The bool column_next returns
column_next_moves(s) == active_column(s) < Len(s.columns) - 1

column_next(s) ==
    IF column_next_panics(s) THEN Panic(s)
    ELSE IF column_next_moves(s)
    THEN LET c == active_column(s)
         IN  [s EXCEPT !.columns[c + 1].selected = FALSE,
                       !.columns[c + 2].selected = TRUE]
    ELSE s

\* The bool column_prev returns
column_prev_moves(s) == active_column(s) > 0

column_prev(s) ==
    IF column_prev_moves(s)
    THEN LET c == active_column(s)
         IN  [s EXCEPT !.columns[c + 1].selected = FALSE,
                       !.columns[c].selected = TRUE]
    ELSE s

\* fn column_select(&mut self): commit the sort on the active column
do_column_select(s) ==
    IF s.columns = <<>> THEN Panic(s)
    ELSE LET next == active_column(s)
             col == At(s.columns, next).column
             current == IF \E i \in DOMAIN s.columns : s.columns[i].order # "Equal"
                        THEN (CHOOSE i \in DOMAIN s.columns :
                                  /\ s.columns[i].order # "Equal"
                                  /\ \A j \in 1..(i - 1) : s.columns[j].order = "Equal") - 1
                        ELSE 0
             order == IF current # next THEN At(s.columns, next).default_order
                      ELSE IF At(s.columns, current).order = "Less" THEN "Greater"
                      ELSE "Less"
         IN  sort_by(s, col, order)

\* TableColumn::width and TableColumn::width_percent
width(c, n) == [c EXCEPT !.requested_width = Some(Absolute(n))]
width_percent(c, p) == [c EXCEPT !.requested_width = Some(Percent(p))]

SaturatingSub(a, b) == IF a < b THEN 0 ELSE a - b

\* (size.x as f32 / 100.0 * width as f32).ceil() as usize. For every size.x
\* below 15 the f32 product rounds to a value with the same ceiling as the
\* exact one (at 15 cells and 100 percent it gives 16).
CeilPercent(size_x, p) == (size_x * p + 99) \div 100

\* The width layout gives a Percent column
PercentWidth_uncapped(size_x, p, remaining_width) == CeilPercent(size_x, p)

PercentWidth(size_x, p, remaining_width) ==
    Min(CeilPercent(size_x, p), remaining_width)

\* layout, the loop over the sized columns from the i-th on: the columns with
\* their widths set, and the width that remains
RECURSIVE SizedWidths(_, _, _, _)
SizedWidths(cols, i, size_x, remaining_width) ==
    IF i > Len(cols) THEN [columns |-> cols, remaining_width |-> remaining_width]
    ELSE IF cols[i].requested_width = None
    THEN SizedWidths(cols, i + 1, size_x, remaining_width)
    ELSE LET requested == cols[i].requested_width[1]
             w == IF requested.kind = "Percent"
                  THEN PercentWidth(size_x, requested.width, remaining_width)
                  ELSE requested.width
         IN  SizedWidths([cols EXCEPT ![i].width = w], i + 1, size_x,
                         SaturatingSub(remaining_width, w))

\* layout: the test that guards the subtraction of the scrollbar's cells
ScrollbarReserved(size, item_count) == SaturatingSub(size.y, 1) < item_count

\* layout: the width to allocate to the columns
LayoutAvailableWidth(size, column_count, item_count) ==
    LET separated == SaturatingSub(size.x,
                                   SaturatingSub(column_count, 1) * SeparatorCells)
    IN  IF ScrollbarReserved(size, item_count)
        THEN SaturatingSub(separated, ScrollbarCells)
        ELSE separated

\* layout: the heights handed to the scroll viewport, which belongs to the
\* host toolkit (scrollbase.set_heights(view_height, content_height))
LayoutHeights(size, item_count) ==
    [view_height |-> SaturatingSub(size.y, 2), content_height |-> item_count]

\* layout, what follows the early return
Relayout(s, size) ==
    LET item_count == Len(s.items)
        column_count == Len(s.columns)
        available_width == LayoutAvailableWidth(size, column_count, item_count)
        sized == SizedWidths(s.columns, 1, size.x, available_width)
        remaining_columns ==
            Cardinality({ i \in DOMAIN s.columns : s.columns[i].requested_width = None })
        spread == [ i \in DOMAIN s.columns |->
                      IF s.columns[i].requested_width = None
                      THEN [sized.columns[i] EXCEPT
                              !.width = sized.remaining_width \div remaining_columns]
                      ELSE sized.columns[i] ]
    IN  [s EXCEPT !.columns = spread, !.last_size = size]

layout(s, size) == IF size = s.last_size THEN s ELSE Relayout(s, size)

\* EventResult
Ignored == [consumed |-> FALSE, cb |-> "none", args |-> <<>>]
Consumed(cb, args) == [consumed |-> TRUE, cb |-> cb, args |-> args]

\* The match of on_event: the widget after the arm, and the EventResult the
\* arm returned early, if it did.
Arm(s, ret) == [self |-> s, ret |-> ret]

on_event_match(s, key) ==
    CASE key = "Right" ->
            IF s.column_select
            THEN IF column_next_panics(s) THEN Arm(Panic(s), None)
                 ELSE IF column_next_moves(s) THEN Arm(column_next(s), None)
                 ELSE Arm(s, Some(Ignored))
            ELSE Arm([s EXCEPT !.column_select = TRUE], None)
      [] key = "Left" ->
            IF s.column_select
            THEN IF column_prev_moves(s) THEN Arm(column_prev(s), None)
                 ELSE Arm(s, Some(Ignored))
            ELSE Arm([s EXCEPT !.column_select = TRUE], None)
      [] key = "Up" ->
            IF s.focus > 0 \/ s.column_select
            THEN IF s.column_select THEN Arm(column_cancel(s), None)
                 ELSE Arm(focus_up(s, 1), None)
            ELSE Arm(s, Some(Ignored))
      [] key = "Down" ->
            LET s1 == IF AddOverflows(s.focus, 1) THEN Overflow(s) ELSE s
            IN  IF s1.panicked THEN Arm(s1, None)
                ELSE IF WrappingAdd(s.focus, 1) < Len(s.items) \/ s.column_select
                THEN IF s.column_select THEN Arm(column_cancel(s1), None)
                     ELSE Arm(focus_down(s1, 1), None)
                ELSE Arm(s1, Some(Ignored))
      [] key = "PageUp" -> Arm(focus_up(column_cancel(s), PageRows), None)
      [] key = "PageDown" -> Arm(focus_down(column_cancel(s), PageRows), None)
      [] key = "Home" -> Arm([column_cancel(s) EXCEPT !.focus = 0], None)
      [] key = "End" ->
            LET s1 == IF SubOverflows(Len(s.items), 1)
                      THEN Overflow(column_cancel(s)) ELSE column_cancel(s)
            IN  IF s1.panicked THEN Arm(s1, None)
                ELSE Arm([s1 EXCEPT !.focus = WrappingSub(Len(s.items), 1)], None)
      [] key = "Enter" ->
            IF s.column_select
            THEN LET s1 == do_column_select(s)
                 IN  IF ~s1.panicked /\ s1.on_sort
                     THEN LET c == At(s1.columns, active_column(s1))
                          IN  Arm(s1, Some(Consumed("on_sort", <<c.column, c.order>>)))
                     ELSE Arm(s1, None)
            ELSE IF ~is_empty(s) /\ s.on_submit
            THEN IF selected_item_panics(s) THEN Arm(Panic(s), None)
                 ELSE Arm(s, Some(Consumed("on_submit",
                                           <<s.focus, At(s.sort_refs, s.focus)>>)))
            ELSE Arm(s, None)
      [] OTHER -> Arm(s, Some(Ignored))

\* on_event: the widget afterwards (self) and the EventResult (result)
on_event(s, key) ==
    LET last_focus == s.focus
        arm == on_event_match(s, key)
        s1 == arm.self
    IN  IF s1.panicked THEN [self |-> s1, result |-> Ignored]
        ELSE IF arm.ret # None THEN [self |-> s1, result |-> arm.ret[1]]
        ELSE IF ~is_empty(s1) /\ last_focus # s1.focus
        THEN IF selected_item_panics(s1) THEN [self |-> Panic(s1), result |-> Ignored]
             ELSE [self |-> s1,
                   result |-> IF s1.on_select
                              THEN Consumed("on_select",
                                            <<s1.focus, At(s1.sort_refs, s1.focus)>>)
                              ELSE Consumed("none", <<>>)]
        ELSE [self |-> s1, result |-> Ignored]

\* ---------------------------------------------------------------- actions
\* All sequences over S of length at most n
SeqsUpTo(S, n) == UNION { [1..k -> S] : k \in 0..n }

\* The focus values the model follows: the rows of a full store, one past
\* them, and the value an unchecked 0 - 1 wraps to
FocusFollowed(f) == f \in Indices \/ f = UsizeMax

\* Unwinding drops the widget: a panicked state holds no widget, and its
\* fields are written as those of an empty one.
Dropped == [new EXCEPT !.panicked = TRUE]

\* The fields are those of r
Written(r) ==
    /\ enabled' = r.enabled
    /\ last_size' = r.last_size
    /\ column_select' = r.column_select
    /\ columns' = r.columns
    /\ column_indicies' = r.column_indicies
    /\ focus' = r.focus
    /\ items' = r.items
    /\ sort_refs' = r.sort_refs
    /\ on_sort' = r.on_sort
    /\ on_submit' = r.on_submit
    /\ on_select' = r.on_select
    /\ panicked' = r.panicked

\* The call returned leaving the widget as result, or panicked.
Becomes(result) ==
    LET r == IF result.panicked THEN Dropped ELSE result
    IN  FocusFollowed(r.focus) /\ Written(r)

Init ==
    /\ enabled = new.enabled
    /\ last_size = new.last_size
    /\ column_select = new.column_select
    /\ columns = new.columns
    /\ column_indicies = new.column_indicies
    /\ focus = new.focus
    /\ items = new.items
    /\ sort_refs = new.sort_refs
    /\ on_sort = new.on_sort
    /\ on_submit = new.on_submit
    /\ on_select = new.on_select
    /\ panicked = new.panicked

\* .column(key, title, |c| c.ordering(default_order)): one column per variant
\* of H, registered in the order of KeyOrder
Column(key, default_order) ==
    /\ ~panicked
    /\ Len(columns) < Len(KeyOrder)
    /\ key = KeyOrder[Len(columns) + 1]
    /\ Becomes(column(Self, key, default_order))

DefaultColumn(key) ==
    /\ ~panicked
    /\ Becomes(default_column(Self, key))

SortBy(key, order) ==
    /\ ~panicked
    /\ Becomes(sort_by(Self, key, order))

Clear ==
    /\ ~panicked
    /\ Becomes(clear(Self))

SetItems(its) ==
    /\ ~panicked
    /\ Becomes(set_items(Self, its))

SelectItem(item_index) ==
    /\ ~panicked
    /\ Becomes(select_item(Self, item_index))

InsertItem(item) ==
    /\ ~panicked
    /\ Len(items) < MaxLen
    /\ Becomes(insert_item(Self, item))

RemoveItem(item_index) ==
    /\ ~panicked
    /\ Becomes(remove_item(Self, item_index))

TakeItems ==
    /\ ~panicked
    /\ Becomes(take_items(Self))

SelectRow(row) ==
    /\ ~panicked
    /\ Becomes(select_row(Self, row))

\* The builds a call of on_event tells apart: arithmetic that overflows
\* panics in a build with overflow checks and wraps in one without.
Builds(key) ==
    IF on_event(SelfIn(FALSE), key).self.overflowed THEN BOOLEAN ELSE {FALSE}

OnEvent(key) ==
    /\ ~panicked
    /\ \E checks \in Builds(key) : Becomes(on_event(SelfIn(checks), key).self)

Next ==
    \/ \E key \in Keys, order \in DefaultOrders : Column(key, order)
    \/ \E key \in Keys : DefaultColumn(key)
    \/ \E key \in Keys, order \in Orders : SortBy(key, order)
    \/ Clear
    \/ \E its \in SeqsUpTo(ItemSet, MaxLen) : SetItems(its)
    \/ \E i \in Indices : SelectItem(i)
    \/ \E item \in ItemSet : InsertItem(item)
    \/ \E i \in Indices : RemoveItem(i)
    \/ TakeItems
    \/ \E row \in Indices : SelectRow(row)
    \/ \E key \in KeySet : OnEvent(key)

Spec == Init /\ [][Next]_vars

\* ---------------------------------------------- enabling and disabling
Disable ==
    /\ ~panicked
    /\ Becomes(disable(Self))

Enable ==
    /\ ~panicked
    /\ Becomes(enable(Self))

SetEnabled(value) ==
    /\ ~panicked
    /\ Becomes(set_enabled(Self, value))

\* The widget with its enabled flag driven as well: the flag is read by
\* take_focus (and by draw) and written by these three methods only.
NextEnabled ==
    \/ Next
    \/ Disable
    \/ Enable
    \/ \E value \in BOOLEAN : SetEnabled(value)

SpecEnabled == Init /\ [][NextEnabled]_vars

\* ---------------------------------------------------------------- handlers
SetOnSort ==
    /\ ~panicked
    /\ Becomes(set_on_sort(Self))

SetOnSubmit ==
    /\ ~panicked
    /\ Becomes(set_on_submit(Self))

SetOnSelect ==
    /\ ~panicked
    /\ Becomes(set_on_select(Self))

\* The widget with its notification handlers bound at any time: the handlers
\* are read by on_event, to build the EventResult, and written by these
\* methods only.
NextNotify ==
    \/ Next
    \/ SetOnSort
    \/ SetOnSubmit
    \/ SetOnSelect

SpecNotify == Init /\ [][NextNotify]_vars

\* ------------------------------------------------------------------ paging
\* A store of n identical records
Rows(n) == [i \in 1..n |-> [A |-> 1, B |-> 2]]

\* The focus values followed through a store of up to MaxRows rows
RowFollowed(f) == f <= MaxRows \/ f = UsizeMax

BecomesPaged(result) ==
    LET r == IF result.panicked THEN Dropped ELSE result
    IN  RowFollowed(r.focus) /\ Written(r)

\* set_items with a long vector
FillRows(n) ==
    /\ ~panicked
    /\ BecomesPaged(set_items(Self, Rows(n)))

\* select_row on a long store
GoToRow(row) ==
    /\ ~panicked
    /\ BecomesPaged(select_row(Self, row))

\* on_event on a long store
PagedKey(key) ==
    /\ ~panicked
    /\ \E checks \in Builds(key) : BecomesPaged(on_event(SelfIn(checks), key).self)

\* The widget with stores long enough for a page of PageRows rows to end
\* inside them: columns are registered, the store is filled, or grown and
\* shrunk record by record while short, and the keys move the focus and
\* switch the mode. The paging keys read the focus, the length of the store,
\* the mode, the columns' flags and sort_refs.
NextPaging ==
    \/ \E key \in Keys, order \in DefaultOrders : Column(key, order)
    \/ \E item \in ItemSet : InsertItem(item)
    \/ \E i \in Indices : RemoveItem(i)
    \/ \E n \in 0..MaxRows : FillRows(n)
    \/ \E row \in 0..MaxRows : GoToRow(row)
    \/ \E key \in KeySet : PagedKey(key)

SpecPaging == Init /\ [][NextPaging]_vars

\* ------------------------------------------------------------------ layout
\* .column(key, title, |c| c.width(n)) or |c| c.width_percent(p) or |c| c
column_sized(s, key, requested) ==
    LET c == NewColumn(key, "Less")
        configured == IF requested = None THEN c
                      ELSE IF requested[1].kind = "Percent"
                      THEN width_percent(c, requested[1].width)
                      ELSE width(c, requested[1].width)
        s1 == column(s, key, "Less")
    IN  [s1 EXCEPT !.columns[Len(s1.columns)].requested_width =
                       configured.requested_width]

ColumnSized(key, requested) ==
    /\ ~panicked
    /\ Len(columns) < Len(KeyOrder)
    /\ key = KeyOrder[Len(columns) + 1]
    /\ Becomes(column_sized(Self, key, requested))

Layout(size) ==
    /\ ~panicked
    /\ Becomes(layout(Self, size))

\* The widget as layout sees it: columns registered with their requested
\* widths, the number of items changing, and the view laid out in one size
\* after another. layout reads the requested widths, the two counts and
\* last_size, and nothing else.
NextLayout ==
    \/ \E key \in Keys, requested \in RequestedWidths : ColumnSized(key, requested)
    \/ \E its \in SeqsUpTo({[A |-> 1, B |-> 2]}, MaxLen) : SetItems(its)
    \/ \E size \in Sizes : Layout(size)

SpecLayout == Init /\ [][NextLayout]_vars

\* ----------------------------------------------------------------- claims
\* refs is a bijection onto the storage indices 0..n-1
IsPermutation(refs, n) ==
    /\ Len(refs) = n
    /\ { refs[i] : i \in DOMAIN refs } = 0..(n - 1)

\* Adjacent display rows are in the order the direction asks for
AdjacentOrdered(its, refs, col, order) ==
    \A r \in 1..(Len(refs) - 1) :
        LET c == Cmp(At(its, refs[r]), At(its, refs[r + 1]), col)
        IN  IF order = "Less" THEN c # "Greater" ELSE c # "Less"

\* The display order is a permutation sorted by col in the direction order
DisplaySortedBy(its, refs, col, order) ==
    /\ IsPermutation(refs, Len(its))
    /\ AdjacentOrdered(its, refs, col, order)

\* C1: in every reachable state sort_refs has items.len() entries and is a
\* bijection onto 0..items.len().
C1_SortRefsIsPermutation == ~panicked => IsPermutation(sort_refs, Len(items))

\* C2: in every reachable state focus_row < items.len() when the store is
\* non-empty, and focus_row = 0 when it is empty.
C2_FocusInRange ==
    ~panicked => IF items = <<>> THEN focus = 0 ELSE focus < Len(items)

\* C3: insert_item on a store of length n with no sorted column appends the
\* record at storage index n and appends the reference n to sort_refs.
C3_InsertAppendsStorageIndex ==
    [][\A item \in ItemSet :
          (InsertItem(item) /\ sort(Self) = None)
          => /\ ~panicked'
             /\ items' = Append(items, item)
             /\ sort_refs' = Append(sort_refs, Len(items))]_vars

\* C4: insert_item on a store whose display order is sorted by the active
\* column and direction completes and leaves the display order sorted by that
\* column and direction, the new record included.
C4_InsertKeepsActiveSort ==
    [][\A item \in ItemSet :
          (/\ InsertItem(item)
           /\ sort(Self) # None
           /\ DisplaySortedBy(items, sort_refs, sort(Self)[1][1], sort(Self)[1][2]))
          => /\ ~panicked'
             /\ items' = Append(items, item)
             /\ DisplaySortedBy(items', sort_refs', sort(Self)[1][1],
                                sort(Self)[1][2])]_vars

\* C5: in every reachable state, a sort_by call, and the sort committed by
\* Enter in column-select mode, leaves the items sequence (its length and the
\* record at every storage index) as it was.
C5_SortKeepsStorageOrder ==
    ~panicked
    => /\ \A key \in Keys, order \in Orders :
             sort_by(Self, key, order).items = items
       /\ column_select
             => \A checks \in BOOLEAN :
                   on_event(SelfIn(checks), "Enter").self.items = items

\* A full store in column-select mode, where both sort_by and the Enter
\* commit return with another display order.
C5_Witness ==
    /\ Len(items) = MaxLen
    /\ column_select
    /\ \E key \in Keys, order \in Orders :
          LET r == sort_by(Self, key, order)
          IN  ~r.panicked /\ r.sort_refs # sort_refs
    /\ LET r == on_event(Self, "Enter").self
       IN  ~r.panicked /\ r.sort_refs # sort_refs

\* C6: on a non-empty store, for every valid storage index k, select_item(k)
\* followed by sort_by of a registered column in either direction leaves
\* selected_item() equal to k.
C6_SelectionFollowsRecord ==
    (~panicked /\ items # <<>>)
    => \A k \in 0..(Len(items) - 1), key \in DOMAIN column_indicies,
          order \in {"Less", "Greater"} :
          LET r == sort_by(select_item(Self, k), key, order)
          IN  ~r.panicked => selected_item(r) = Some(k)

\* C7: in every reachable state with a non-empty store whose sort_refs is a
\* permutation, a sort_by(column, Ascending) call that returns leaves no
\* adjacent pair of display rows comparing Greater, a Descending one leaves
\* none comparing Less, and sort_refs is a permutation of the same indices;
\* and the call does return when the focus is on one of the rows.
C7_SortResult ==
    (~panicked /\ items # <<>> /\ IsPermutation(sort_refs, Len(items)))
    => \A key \in Keys, order \in {"Less", "Greater"} :
          LET r == sort_by(Self, key, order)
          IN  /\ focus < Len(items) => ~r.panicked
              /\ ~r.panicked
                    => /\ IsPermutation(r.sort_refs, Len(items))
                       /\ AdjacentOrdered(r.items, r.sort_refs, key, order)

\* A full store displayed in storage order, where sort_by returns with
\* another display order, ascending and descending.
C7_Witness ==
    /\ Len(items) = MaxLen
    /\ sort_refs = [i \in 1..MaxLen |-> i - 1]
    /\ \A order \in {"Less", "Greater"} :
          LET r == sort_by(Self, "A", order)
          IN  ~r.panicked /\ r.sort_refs # sort_refs

\* The references left by removing storage index i, in display order
RECURSIVE Reindexed(_, _)
Reindexed(refs, i) ==
    IF refs = <<>> THEN <<>>
    ELSE IF Head(refs) = i THEN Reindexed(Tail(refs), i)
    ELSE IF Head(refs) > i THEN <<Head(refs) - 1>> \o Reindexed(Tail(refs), i)
    ELSE <<Head(refs)>> \o Reindexed(Tail(refs), i)

\* C8: in every reachable state, a remove_item(i) call with i < n that
\* returns: returns the record that was at storage index i, leaves the other
\* n-1 records in storage order, removes the sort_refs entry equal to i,
\* decrements the entries greater than i by 1, leaves the others, and keeps
\* their display order; and the call does return when sort_refs is a
\* permutation and the focus is on one of the rows.
C8_RemovalReindexing ==
    ~panicked
    => \A i \in 0..(Len(items) - 1) :
          LET r == remove_item(Self, i)
          IN  /\ (IsPermutation(sort_refs, Len(items)) /\ focus < Len(items))
                    => ~r.panicked
              /\ ~r.panicked
                    => /\ remove_item_ret(Self, i) = Some(At(items, i))
                       /\ Len(r.items) = Len(items) - 1
                       /\ \A k \in 0..(Len(items) - 2) :
                             At(r.items, k) = At(items, IF k < i THEN k ELSE k + 1)
                       /\ r.sort_refs = Reindexed(sort_refs, i)
                       /\ IsPermutation(sort_refs, Len(items))
                             => Len(r.sort_refs) = Len(sort_refs) - 1

\* A full store whose display order is not the storage order, where
\* remove_item(0) returns: the record is displayed neither first nor last,
\* and every other reference is decremented.
C8_Witness ==
    /\ Len(items) = MaxLen
    /\ IsPermutation(sort_refs, Len(items))
    /\ At(sort_refs, 0) # 0
    /\ At(sort_refs, MaxLen - 1) # 0
    /\ ~remove_item(Self, 0).panicked

\* C9: in every reachable state, remove_item with storage_index >=
\* items.len() returns None without failing and leaves every field unchanged.
C9_RemoveOutOfRange ==
    ~panicked
    => \A i \in Indices :
          i >= Len(items)
          => /\ remove_item_ret(Self, i) = None
             /\ remove_item(Self, i) = Self

\* A non-empty store in column-select mode, with the focus on the last row,
\* where remove_item(items.len()) can be called.
C9_Witness ==
    /\ Len(items) = 2
    /\ column_select
    /\ focus = 1
    /\ ENABLED RemoveItem(Len(items))

SortedColumns(cols) == { i \in 0..(Len(cols) - 1) : At(cols, i).order # "Equal" }

\* C11: in column-select mode with exactly one column S sorted, an Enter that
\* returns leaves: S with the opposite direction if the active column A is S;
\* A with its configured default direction and S with none if A is not S; and
\* in both cases the display order sorted by A in the new direction.
C11_SortToggling ==
    (~panicked /\ column_select /\ Cardinality(SortedColumns(columns)) = 1)
    => \A checks \in BOOLEAN :
          LET S == CHOOSE i \in SortedColumns(columns) : TRUE
              A == active_column(Self)
              r == on_event(SelfIn(checks), "Enter").self
              new_order == IF A = S
                           THEN IF At(columns, S).order = "Less"
                                THEN "Greater" ELSE "Less"
                           ELSE At(columns, A).default_order
          IN  ~r.panicked
              => /\ At(r.columns, A).order = new_order
                 /\ A # S => At(r.columns, S).order = "Equal"
                 /\ DisplaySortedBy(r.items, r.sort_refs, At(columns, A).column,
                                    new_order)

\* C12: default_column(key) and a returning sort_by(key, order) with a key that
\* was never registered leave every column's direction and active flag,
\* sort_refs and focus as they were.
C12_UnknownKeyIsNoOp ==
    ~panicked
    => \A key \in Keys \ DOMAIN column_indicies :
          /\ default_column(Self, key) = Self
          /\ \A order \in Orders :
                LET r == sort_by(Self, key, order)
                IN  ~r.panicked
                    => /\ r.columns = columns
                       /\ r.sort_refs = sort_refs
                       /\ r.focus = focus

\* C14: in every state reached by the operations, disable / enable /
\* set_enabled among them, take_focus returns true exactly when the widget is
\* enabled and the store is non-empty; so it returns false whenever the
\* widget is disabled.
C14_TakeFocus ==
    ~panicked
    => /\ take_focus(Self) = (is_enabled(Self) /\ items # <<>>)
       /\ ~enabled => ~take_focus(Self)
       /\ \A value \in BOOLEAN :
             /\ take_focus(set_enabled(Self, value)) = (value /\ items # <<>>)
             /\ ~take_focus(disable(Self))
             /\ take_focus(enable(Self)) = (items # <<>>)

\* A non-empty store on a widget that was disabled: take_focus refuses, and
\* accepts once the widget is enabled again.
C14_Witness ==
    /\ ~panicked
    /\ ~enabled
    /\ Len(items) = MaxLen
    /\ ~take_focus(Self)
    /\ take_focus(enable(Self))

\* Sum of the computed widths of the columns
RECURSIVE WidthSum(_)
WidthSum(cols) ==
    IF cols = <<>> THEN 0 ELSE Head(cols).width + WidthSum(Tail(cols))

\* The cells the separators between the columns take
Separators(cols) == SeparatorCells * (IF cols = <<>> THEN 0 ELSE Len(cols) - 1)

\* The width layout has to allocate: the total less the separators and, when
\* there are more items than rows to show them, less the scrollbar
AvailableWidth(cols, n_items, size) ==
    LET separated == IF size.x < Separators(cols) THEN 0
                     ELSE size.x - Separators(cols)
        reserved == IF n_items > (IF size.y = 0 THEN 0 ELSE size.y - 1)
                    THEN ScrollbarCells ELSE 0
    IN  IF separated < reserved THEN 0 ELSE separated - reserved

\* The widths given to the sized columns before the i-th
RECURSIVE SizedBefore(_, _)
SizedBefore(cols, i) ==
    IF i <= 1 THEN 0
    ELSE SizedBefore(cols, i - 1)
         + (IF cols[i - 1].requested_width # None THEN cols[i - 1].width ELSE 0)

\* The total width covers the separators, and no Absolute column asks for
\* more than is left of the available width when its turn comes
WidthsFit(cols, n_items, size) ==
    /\ Separators(cols) <= size.x
    /\ \A i \in DOMAIN cols :
          (cols[i].requested_width # None
           /\ cols[i].requested_width[1].kind = "Absolute")
          => cols[i].width + SizedBefore(cols, i)
                 <= AvailableWidth(cols, n_items, size)

\* C13: for every size, item count and column configuration, after layout the
\* computed widths plus 3 cells per separator do not exceed the total width.
C13_LayoutWidthSum ==
    ~panicked
    => \A size \in Sizes :
          LET r == layout(Self, size)
          IN  WidthSum(r.columns) + Separators(r.columns) <= size.x

\* C13, amended: a layout pass that recomputes the widths (its size is not
\* the size of the pass before) leaves the computed widths within the
\* available width, and so the widths plus 3 cells per separator within the
\* total width, when the total width covers the separators and no Absolute
\* column asks for more than is left of the available width when its turn
\* comes.
C13_LayoutWidthSum_Amended ==
    ~panicked
    => \A size \in Sizes :
          LET r == layout(Self, size)
          IN  (size # last_size /\ WidthsFit(r.columns, Len(r.items), size))
              => /\ WidthSum(r.columns) <= AvailableWidth(r.columns, Len(r.items), size)
                 /\ WidthSum(r.columns) + Separators(r.columns) <= size.x

\* Two columns, a Percent one and an Absolute one, and more items than rows:
\* a layout pass fits them in the width, and a narrower one does not.
C13_Witness ==
    /\ Len(columns) = 2
    /\ \E i, j \in DOMAIN columns :
          /\ columns[i].requested_width # None
          /\ columns[i].requested_width[1].kind = "Percent"
          /\ columns[j].requested_width # None
          /\ columns[j].requested_width[1].kind = "Absolute"
    /\ Len(items) = MaxLen
    /\ last_size.x = MaxWidth
    /\ columns[1].width > 0 /\ columns[2].width > 0
    /\ WidthSum(columns) + Separators(columns) <= last_size.x
    /\ \E size \in Sizes :
          LET r == layout(Self, size)
          IN  /\ size.x > Separators(columns)
              /\ WidthSum(r.columns) + Separators(r.columns) > size.x

\* C15: for every state and every key event, if on_event returns and reports
\* the event as not consumed (Ignored), then focus, column-select mode, every
\* column's active flag and sort direction, and sort_refs are as before.
C15_IgnoredMeansNoEffect ==
    ~panicked
    => \A key \in KeySet, checks \in BOOLEAN :
          LET r == on_event(SelfIn(checks), key)
          IN  (~r.self.panicked /\ ~r.result.consumed)
              => /\ r.self.focus = focus
                 /\ r.self.column_select = column_select
                 /\ r.self.columns = columns
                 /\ r.self.sort_refs = sort_refs

\* C16: for every key event on a non-empty store from which on_event returns,
\* if the focus row after the event differs from the one before, the result
\* carries the on-select notification (where a handler is bound) with the new
\* display row and sort_refs[new display row]; if the store is empty or the
\* focus did not change, the result carries no on-select notification.
C16_SelectionChangedNotification ==
    ~panicked
    => \A key \in KeySet, checks \in BOOLEAN :
          LET r == on_event(SelfIn(checks), key)
          IN  ~r.self.panicked
              => IF items # <<>> /\ r.self.focus # focus
                 THEN on_select
                      => /\ r.result.cb = "on_select"
                         /\ r.self.focus < Len(r.self.sort_refs)
                         /\ r.result.args
                              = <<r.self.focus, At(r.self.sort_refs, r.self.focus)>>
                 ELSE r.result.cb # "on_select"

\* C18: in every reachable state with an empty store, in either navigation
\* mode and with or without handlers bound, selected_row() and
\* selected_item() return None and an Enter key event returns not consumed.
C18_EmptyStore ==
    (~panicked /\ items = <<>>)
    => /\ selected_row(Self) = None
       /\ ~selected_item_panics(Self)
       /\ selected_item(Self) = None
       /\ \A checks \in BOOLEAN :
             LET r == on_event(SelfIn(checks), "Enter")
             IN  ~r.self.panicked /\ ~r.result.consumed

\* C17: on a non-empty store of n items with focus f < n, in either mode,
\* PageDown sets the focus to min(f + 10, n - 1), PageUp to max(f - 10, 0),
\* Home to 0 and End to n - 1; each returns, leaves column-select mode false
\* and the focus in 0..n-1.
C17_PagingClamps ==
    (~panicked /\ items # <<>> /\ focus < Len(items))
    => \A key \in {"PageDown", "PageUp", "Home", "End"}, checks \in BOOLEAN :
          LET r == on_event(SelfIn(checks), key).self
              n == Len(items)
              target == CASE key = "PageDown" ->
                               IF focus + 10 < n - 1 THEN focus + 10 ELSE n - 1
                          [] key = "PageUp" ->
                               IF focus - 10 > 0 THEN focus - 10 ELSE 0
                          [] key = "Home" -> 0
                          [] key = "End" -> n - 1
          IN  /\ ~r.panicked
              /\ r.focus = target
              /\ r.focus \in 0..(n - 1)
              /\ ~r.column_select
              /\ r.items = items

\* A store of MaxRows rows in column-select mode with the focus on the first
\* row: PageDown moves it 10 rows down, short of the last row, and leaves
\* column-select mode.
C17_Witness ==
    /\ ~panicked
    /\ Len(items) = MaxRows
    /\ column_select
    /\ focus = 0
    /\ LET r == on_event(Self, "PageDown").self
       IN  /\ ~r.panicked
           /\ r.focus = 10
           /\ r.focus < Len(items) - 1
           /\ ~r.column_select

\* C19: set_items(v), called in any reachable state, returns without panic and
\* leaves items equal to v and sort_refs a permutation of 0..len(v): the
\* identity if no column has a sort direction, and otherwise sorted by the
\* column that has one, in its direction.
C19_SetItems ==
    ~panicked
    => \A v \in SeqsUpTo(ItemSet, MaxLen) :
          LET r == set_items(Self, v)
          IN  /\ ~r.panicked
              /\ r.items = v
              /\ IsPermutation(r.sort_refs, Len(v))
              /\ IF sort(Self) = None
                 THEN r.sort_refs = [i \in 1..Len(v) |-> i - 1]
                 ELSE AdjacentOrdered(v, r.sort_refs, sort(Self)[1][1],
                                      sort(Self)[1][2])

\* C20: in every reachable state, if some column has a sort direction and the
\* store is non-empty, the display order is a permutation sorted by that
\* column in that direction; and a sort_by on a registered column that
\* returns on a non-empty store leaves that column with a sort direction.
C20_SortedColumnDrivesDisplay ==
    (~panicked /\ items # <<>>)
    => /\ \A i \in DOMAIN columns :
             columns[i].order # "Equal"
             => DisplaySortedBy(items, sort_refs, columns[i].column,
                                columns[i].order)
       /\ \A key \in DOMAIN column_indicies, order \in Orders :
             LET r == sort_by(Self, key, order)
             IN  ~r.panicked
                 => At(r.columns, r.column_indicies[key]).order # "Equal"

\* The display row (0-based) at which refs first shows storage index x
RowOf(refs, x) ==
    (CHOOSE i \in DOMAIN refs : refs[i] = x /\ \A j \in 1..(i - 1) : refs[j] # x) - 1

\* The display rows p < q of refs whose records compare Equal on col
TiedRows(its, refs, col) ==
    { pq \in (0..(Len(refs) - 1)) \X (0..(Len(refs) - 1)) :
        /\ pq[1] < pq[2]
        /\ At(refs, pq[1]) < Len(its) /\ At(refs, pq[2]) < Len(its)
        /\ Cmp(At(its, At(refs, pq[1])), At(its, At(refs, pq[2])), col) = "Equal" }

\* refs, last row first
Reversed(refs) == [i \in DOMAIN refs |-> refs[Len(refs) + 1 - i]]

\* C21: in every reachable state, for every column and any two display rows
\* whose records compare Equal on it, a sort_by(column, Ascending) that returns
\* and a sort_by(column, Descending) that returns both show the two records in
\* the relative order they had before; the closure handed to the sort compares
\* (b, a) for Descending, and (a, b) for Ascending.
C21_TiesBreakIdentically ==
    ~panicked
    => \A key \in Keys :
          /\ \A order \in {"Less", "Greater"} :
                LET r == sort_by(Self, key, order)
                IN  ~r.panicked
                    => \A pq \in TiedRows(items, sort_refs, key) :
                          /\ At(sort_refs, pq[1]) \in { r.sort_refs[i] : i \in DOMAIN r.sort_refs }
                          /\ At(sort_refs, pq[2]) \in { r.sort_refs[i] : i \in DOMAIN r.sort_refs }
                          /\ RowOf(r.sort_refs, At(sort_refs, pq[1]))
                                < RowOf(r.sort_refs, At(sort_refs, pq[2]))
          /\ \A a, b \in 0..(Len(items) - 1) :
                /\ SortClosure(items, key, "Less", a, b)
                      = Cmp(At(items, a), At(items, b), key)
                /\ SortClosure(items, key, "Greater", a, b)
                      = Cmp(At(items, b), At(items, a), key)

\* A full store holding two records that tie on column A and one that does
\* not: sort_by returns in both directions, the descending display order is
\* not the ascending one reversed, and one of the two differs from the
\* display order before.
C21_Witness ==
    /\ ~panicked
    /\ Len(items) = MaxLen
    /\ TiedRows(items, sort_refs, "A") # {}
    /\ \E i, j \in DOMAIN items : items[i].A # items[j].A
    /\ LET asc == sort_by(Self, "A", "Less")
           desc == sort_by(Self, "A", "Greater")
       IN  /\ ~asc.panicked /\ ~desc.panicked
           /\ desc.sort_refs # Reversed(asc.sort_refs)
           /\ asc.sort_refs # sort_refs \/ desc.sort_refs # sort_refs

\* C22: in column-select mode, for every focus position, an Up or Down key
\* event returns and leaves row-focus mode, the focus where it was, every
\* column's active flag true exactly when the column has a sort direction,
\* and sort_refs, the sort directions and the store as they were.
C22_CancelColumnSelect ==
    (~panicked /\ column_select)
    => \A key \in {"Up", "Down"}, checks \in BOOLEAN :
          LET r == on_event(SelfIn(checks), key).self
          IN  /\ focus < UsizeMax => ~r.panicked
              /\ ~r.panicked
                    => /\ ~r.column_select
                       /\ r.focus = focus
                       /\ Len(r.columns) = Len(columns)
                       /\ \A i \in DOMAIN columns :
                             /\ r.columns[i].selected = (r.columns[i].order # "Equal")
                             /\ r.columns[i].order = columns[i].order
                       /\ r.sort_refs = sort_refs
                       /\ r.items = items

\* Column-select mode on a full store with the focus on the last row, the
\* first column sorted and the second one active: Down returns with the focus
\* still on the last row and the active flag back on the sorted column, and
\* so does Up.
C22_Witness ==
    /\ ~panicked
    /\ column_select
    /\ Len(items) = MaxLen
    /\ focus = MaxLen - 1
    /\ Len(columns) = 2
    /\ columns[1].order # "Equal" /\ ~columns[1].selected
    /\ columns[2].order = "Equal" /\ columns[2].selected
    /\ \A key \in {"Up", "Down"} :
          LET r == on_event(Self, key).self
          IN  /\ ~r.panicked
              /\ ~r.column_select
              /\ r.focus = MaxLen - 1
              /\ r.columns[1].selected /\ ~r.columns[2].selected

\* C23: for every size and item count, a layout pass that recomputes the
\* widths subtracts the 2 scrollbar cells from the available width exactly
\* when the item count exceeds the viewport height the pass hands to the
\* scroll viewport (total height - 2, saturating at 0).
C23_ScrollbarReservation ==
    ~panicked
    => \A size \in Sizes :
          size # last_size
          => LET item_count == Len(layout(Self, size).items)
                 heights == LayoutHeights(size, item_count)
                 separated == SaturatingSub(size.x, Separators(columns))
             IN  /\ heights.view_height = SaturatingSub(size.y, 2)
                 /\ ScrollbarReserved(size, item_count)
                       <=> item_count > heights.view_height
                 /\ LayoutAvailableWidth(size, Len(columns), item_count)
                       = IF item_count > heights.view_height
                         THEN SaturatingSub(separated, ScrollbarCells)
                         ELSE separated

\* C24: on a store of n >= 2 items whose sort_refs is a permutation, with the
\* focus in range and s the selected storage index, remove_item(i) with i < n
\* and i # s returns and leaves selected_item() defined and equal to s
\* re-indexed (s if s < i, s - 1 if s > i), wherever i is displayed.
C24_RemoveKeepsSelection ==
    (/\ ~panicked
     /\ Len(items) >= 2
     /\ focus < Len(items)
     /\ IsPermutation(sort_refs, Len(items)))
    => LET s == At(sort_refs, focus)
       IN  \A i \in (0..(Len(items) - 1)) \ {s} :
              LET r == remove_item(Self, i)
              IN  /\ ~r.panicked
                  /\ ~selected_item_panics(r)
                  /\ selected_item(r) = Some(IF s < i THEN s ELSE s - 1)

\* C25: on an empty store with the focus on row 0, in either mode and in a
\* build with or without overflow checks, each of Up, Down, PageUp, PageDown,
\* Home and End returns, evaluates no usize arithmetic that overflows, and
\* leaves the focus on row 0.
C25_NavigationOnEmptyStore ==
    (~panicked /\ items = <<>> /\ focus = 0)
    => \A key \in {"Up", "Down", "PageUp", "PageDown", "Home", "End"},
          checks \in BOOLEAN :
          LET r == on_event(SelfIn(checks), key).self
          IN  /\ ~r.panicked
              /\ ~r.overflowed
              /\ r.focus = 0

====
